---------------------------- MODULE Spec2Model ----------------------------
(***************************************************************************)
(* A model of news_automation.py: the per-topic RSS scan                   *)
(* (collect_news_by_keyword), the summarizer (summarize_news_with_gemini), *)
(* the digest assembly and delivery stage of main, and the top-level       *)
(* driver with its exit status.                                            *)
(*                                                                         *)
(* Three specifications are defined:                                       *)
(*   SpecCollect  one call of collect_news_by_keyword, entry by entry,     *)
(*                with every feed and entry drawn from the environment;    *)
(*   Spec         one run of the script, from the secret checks to exit;   *)
(*   SpecInt      Spec plus the events that reach the top-level driver     *)
(*                (an interrupt, an exception in main's unguarded code).   *)
(*                                                                         *)
(* Strings are represented by what the code reads of them.  A title is a   *)
(* run of n copies of one letter, possibly wrapped in whitespace or        *)
(* markup: [n |-> n, pad |-> BOOLEAN].  A cleaned title is the number n.   *)
(* A text block of the digest is represented by its length in characters.  *)
(***************************************************************************)
EXTENDS Integers, Sequences, FiniteSets, TLC

VARIABLES
    \* ---- collect_news_by_keyword, stepwise (SpecCollect) ----
    cpc,                    \* position in the scan: "off", "feed", "entries", "feed_end", "break", "returned"
    keyword,                \* the topic being scanned
    max_domestic,           \* parameter max_domestic
    max_international,      \* parameter max_international
    feed_i,                 \* index of the feed of the outer loop (1-based)
    entry_j,                \* entries of the current feed already visited
    domestic_articles,      \* the domestic accumulator
    international_articles, \* the international accumulator
    all_articles,           \* the returned list
    failures,               \* kinds of feed failure met so far in this scan
    ref,                    \* the same scan run on the feed list without its failed feeds
    \* ---- one run of the script (Spec, SpecInt) ----
    pc,                     \* position in the script
    secrets,                \* which of the three environment variables are set
    topic_k,                \* index in KEYWORD_FEEDS of the topic of main's loop
    articles,               \* collect_news_by_keyword's result for the current topic
    all_summaries,          \* main's list of topic sections
    success_count,          \* main's success_count
    calls,                  \* per topic: articles handed to the summarizer, generation-API calls made
    feed_fetches,           \* feedparser.parse calls made in this run
    full_message,           \* the assembled digest (NoMessage before assembly)
    output_path,            \* generate_news_audio's output_path
    file_on_disk,           \* whether a file exists at the temporary path
    audio_file,             \* generate_news_audio's result (None or the path)
    tts_attempts,           \* edge_tts save calls made
    text_sends,             \* calls of send_telegram_message, with the length handed over
    voice_sends,            \* calls of send_telegram_voice
    text_success,
    voice_success,
    unlink_failed,          \* os.unlink raised
    raised,                 \* the exception that left main: "none", "Exception", "KeyboardInterrupt"
    exit_code               \* the process exit status (Running before exit)

collectVars == <<cpc, keyword, max_domestic, max_international, feed_i, entry_j,
                 domestic_articles, international_articles, all_articles, failures, ref>>

runVars == <<pc, secrets, topic_k, articles, all_summaries, success_count, calls,
             feed_fetches, full_message, output_path, file_on_disk, audio_file,
             tts_attempts, text_sends, voice_sends, text_success, voice_success,
             unlink_failed, raised, exit_code>>

vars == <<collectVars, runVars>>

(***************************************************************************)
(* Configuration                                                           *)
(***************************************************************************)

\* The keys of KEYWORD_FEEDS in insertion order (the names stand for the
\* Korean keywords; "AI" is itself).
TopicOrder == <<"military", "politics", "stocks", "AI">>

Topics == {TopicOrder[i] : i \in 1..Len(TopicOrder)}

\* KEYWORD_FEEDS, each URL reduced to the host the code looks at.
KEYWORD_FEEDS ==
    [military |-> <<"yna.co.kr", "naver.com", "naver.com", "nytimes.com", "bbci.co.uk">>,
     politics |-> <<"yna.co.kr", "naver.com", "naver.com", "nytimes.com", "bbci.co.uk">>,
     stocks   |-> <<"yna.co.kr", "naver.com", "naver.com", "nytimes.com", "bbci.co.uk">>,
     AI       |-> <<"naver.com", "naver.com", "naver.com", "nytimes.com", "bbci.co.uk">>]

\* KEYWORD_FEEDS.get(keyword, [])
FeedsOf(kw) == IF kw \in DOMAIN KEYWORD_FEEDS THEN KEYWORD_FEEDS[kw] ELSE <<>>

\* any(domain in feed_url for domain in ['nytimes.com', 'bbci.co.uk'])
IsInternational(feed_url) == feed_url \in {"nytimes.com", "bbci.co.uk"}

DefaultMaxDomestic == 5
DefaultMaxInternational == 2
EntrySlice == 10        \* feed.entries[:10]
MinTitleLen == 10       \* len(title) < 10
TitleCut == 100         \* title[:100]
CleanCut == 500         \* clean_text(...)[:500]

Min(a, b) == IF a < b THEN a ELSE b

(***************************************************************************)
(* Inputs of the scan                                                      *)
(***************************************************************************)

\* What feedparser.parse does for a feed: returns a well-formed feed, returns
\* a feed flagged bozo with its exception (a malformed document, or a fetch
\* that failed), or raises.
FeedStatuses == {"ok", "bozo", "raise"}

\* Lengths of raw titles: empty, just too short, just long enough, at and
\* over the 100-character cut.
TitleLens == {0, MinTitleLen - 1, MinTitleLen, TitleCut, TitleCut + 1}

RawTitles == [n : TitleLens, pad : BOOLEAN]

\* entry.get('published'): absent, within the last 24 hours, older, or text
\* that parsedate_tz cannot parse.
PublishedKinds == {"absent", "recent", "stale", "garbled"}

\* An entry of a feed; raises marks an entry whose processing raises.  Every
\* kind of date is tried with a title that qualifies, every title with a
\* recent date.
Entries ==
    [published : PublishedKinds, title : [n : {MinTitleLen}, pad : BOOLEAN], raises : {FALSE}]
    \cup [published : {"recent"}, title : RawTitles, raises : {FALSE}]
    \cup [published : {"recent"}, title : [n : {MinTitleLen}, pad : {FALSE}], raises : {TRUE}]

(***************************************************************************)
(* collect_news_by_keyword: the pure steps                                 *)
(***************************************************************************)

\* clean_text on a title: markup and surrounding whitespace go, the rest is
\* cut to 500 characters.  The result is the cleaned string's length.
clean_text(raw) == Min(raw.n, CleanCut)

\* is_recent_article: only a parsed date older than the window is rejected.
is_recent_article(published) == published # "stale"

NoSelection == [dom |-> <<>>, intl |-> <<>>]

\* Lines 163 and 176: both accumulators have reached their caps.
CapsReached(sel, maxd, maxi) ==
    Len(sel.dom) >= maxd /\ Len(sel.intl) >= maxi

\* Lines 156-161: append to the accumulator of the article's class while its
\* cap is not reached.
AppendArticleUncapped(sel, article, is_international, maxd, maxi) ==
    IF is_international
    THEN [sel EXCEPT !.intl = Append(@, article)]
    ELSE [sel EXCEPT !.dom = Append(@, article)]

AppendArticle(sel, article, is_international, maxd, maxi) ==
    IF is_international
    THEN IF Len(sel.intl) < maxi THEN [sel EXCEPT !.intl = Append(@, article)] ELSE sel
    ELSE IF Len(sel.dom) < maxd THEN [sel EXCEPT !.dom = Append(@, article)] ELSE sel

\* The body of the entry loop, lines 138-168.  built says that the entry got
\* as far as line 163 (it was not skipped by a continue or an exception), so
\* that the inner break is tested.
ProcessEntry(sel, entry, is_international, maxd, maxi) ==
    IF entry.raises THEN [sel |-> sel, built |-> FALSE]
    ELSE IF ~is_recent_article(entry.published) THEN [sel |-> sel, built |-> FALSE]
    ELSE LET title == clean_text(entry.title)
         IN IF title = 0 \/ title < MinTitleLen
            THEN [sel |-> sel, built |-> FALSE]
            ELSE LET article == [title  |-> Min(title, TitleCut),
                                 source |-> IF is_international THEN "international"
                                                                ELSE "domestic"]
                 IN [sel   |-> AppendArticle(sel, article, is_international, maxd, maxi),
                     built |-> TRUE]

\* Lines 131-135 and 172-174: the feed is left without looking at its entries
\* when parse raised or the feed is flagged bozo with an exception.
FeedSkippedOnlyOnRaise(status) == status = "raise"

FeedSkipped(status) == status # "ok"

\* Line 179.
Combined(sel) == sel.dom \o sel.intl

(***************************************************************************)
(* collect_news_by_keyword, entry by entry                                 *)
(***************************************************************************)

\* The reference scan: the same loop over the topic's feed list with the
\* failed feeds taken out.  present: the current feed is in that list;
\* scanning: its entry loop is running; stopped: its outer loop has broken.
RefStart == [dom |-> <<>>, intl |-> <<>>, present |-> FALSE, scanning |-> FALSE,
             stopped |-> FALSE]

RefSel(r) == [dom |-> r.dom, intl |-> r.intl]

RefEnterFeed(r, status) ==
    [r EXCEPT !.present = (status = "ok"),
              !.scanning = (status = "ok") /\ ~r.stopped]

RefEntry(r, entry, is_international, maxd, maxi) ==
    IF ~r.scanning THEN r
    ELSE LET res == ProcessEntry(RefSel(r), entry, is_international, maxd, maxi)
         IN [r EXCEPT !.dom = res.sel.dom,
                      !.intl = res.sel.intl,
                      !.scanning = ~(res.built /\ CapsReached(res.sel, maxd, maxi))]

RefLeaveFeed(r, maxd, maxi) ==
    [r EXCEPT !.present = FALSE,
              !.scanning = FALSE,
              !.stopped = @ \/ (r.present /\ CapsReached(RefSel(r), maxd, maxi))]

Selection == [dom |-> domestic_articles, intl |-> international_articles]

CurrentFeed == FeedsOf(keyword)[feed_i]

\* The state before the first statement of collect_news_by_keyword.
CollectStart(kw, maxd, maxi) ==
    /\ cpc = "feed"
    /\ keyword = kw
    /\ max_domestic = maxd
    /\ max_international = maxi
    /\ feed_i = 1
    /\ entry_j = 0
    /\ domestic_articles = <<>>
    /\ international_articles = <<>>
    /\ all_articles = <<>>
    /\ failures = {}
    /\ ref = RefStart

\* Lines 121-135, 172-174: the next feed is fetched and parsed.
FetchFeed ==
    /\ cpc = "feed"
    /\ feed_i <= Len(FeedsOf(keyword))
    /\ \E status \in FeedStatuses :
          /\ IF FeedSkipped(status)
             THEN /\ cpc' = "feed"
                  /\ feed_i' = feed_i + 1
             ELSE /\ cpc' = "entries"
                  /\ feed_i' = feed_i
          /\ failures' = IF status = "ok" THEN failures ELSE failures \cup {status}
          /\ ref' = IF status = "ok" THEN RefEnterFeed(ref, status) ELSE ref
    /\ entry_j' = 0
    /\ UNCHANGED <<keyword, max_domestic, max_international, domestic_articles,
                   international_articles, all_articles>>
    /\ UNCHANGED runVars

\* Lines 137-168: one entry of feed.entries[:10].
ScanEntry ==
    /\ cpc = "entries"
    /\ entry_j < EntrySlice
    /\ \E entry \in Entries :
          LET intl == IsInternational(CurrentFeed)
              res  == ProcessEntry(Selection, entry, intl, max_domestic, max_international)
          IN /\ domestic_articles' = res.sel.dom
             /\ international_articles' = res.sel.intl
             /\ cpc' = IF res.built /\ CapsReached(res.sel, max_domestic, max_international)
                       THEN "feed_end" ELSE "entries"
             /\ ref' = RefEntry(ref, entry, intl, max_domestic, max_international)
    /\ entry_j' = entry_j + 1
    /\ UNCHANGED <<keyword, max_domestic, max_international, feed_i, all_articles, failures>>
    /\ UNCHANGED runVars

\* The entry loop runs out: the feed has no further entry, or ten were seen.
EndEntries ==
    /\ cpc = "entries"
    /\ cpc' = "feed_end"
    /\ ref' = [ref EXCEPT !.scanning = FALSE]
    /\ UNCHANGED <<keyword, max_domestic, max_international, feed_i, entry_j,
                   domestic_articles, international_articles, all_articles, failures>>
    /\ UNCHANGED runVars

\* Lines 170, 176-177: after a feed that was scanned, break when both caps
\* are reached, else go on to the next feed.
FeedEnd ==
    /\ cpc = "feed_end"
    /\ IF CapsReached(Selection, max_domestic, max_international)
       THEN cpc' = "break" /\ feed_i' = feed_i
       ELSE cpc' = "feed" /\ feed_i' = feed_i + 1
    /\ ref' = RefLeaveFeed(ref, max_domestic, max_international)
    /\ UNCHANGED <<keyword, max_domestic, max_international, entry_j,
                   domestic_articles, international_articles, all_articles, failures>>
    /\ UNCHANGED runVars

\* Lines 179-182: the loop is over (exhausted or broken), the lists are joined.
ReturnArticles ==
    /\ \/ cpc = "break"
       \/ cpc = "feed" /\ feed_i > Len(FeedsOf(keyword))
    /\ all_articles' = Combined(Selection)
    /\ cpc' = "returned"
    /\ UNCHANGED <<keyword, max_domestic, max_international, feed_i, entry_j,
                   domestic_articles, international_articles, failures, ref>>
    /\ UNCHANGED runVars

(***************************************************************************)
(* collect_news_by_keyword as a function of the whole input of a topic     *)
(***************************************************************************)

\* The entry loop over feed.entries[:10], from entry j on.
RECURSIVE ScanEntries(_, _, _, _, _, _)
ScanEntries(sel, entries, j, is_international, maxd, maxi) ==
    IF j > Len(entries) \/ j > EntrySlice THEN sel
    ELSE LET res == ProcessEntry(sel, entries[j], is_international, maxd, maxi)
         IN IF res.built /\ CapsReached(res.sel, maxd, maxi)
            THEN res.sel
            ELSE ScanEntries(res.sel, entries, j + 1, is_international, maxd, maxi)

\* The feed loop from feed i on; inputs[i] is what feedparser.parse gives for
\* the i-th URL.  fetches counts the calls of feedparser.parse.
RECURSIVE ScanFeeds(_, _, _, _, _, _, _)
ScanFeeds(sel, fetches, feeds, inputs, i, maxd, maxi) ==
    IF i > Len(feeds) THEN [sel |-> sel, fetches |-> fetches]
    ELSE IF FeedSkipped(inputs[i].status)
    THEN ScanFeeds(sel, fetches + 1, feeds, inputs, i + 1, maxd, maxi)
    ELSE LET after == ScanEntries(sel, inputs[i].entries, 1,
                                  IsInternational(feeds[i]), maxd, maxi)
         IN IF CapsReached(after, maxd, maxi)
            THEN [sel |-> after, fetches |-> fetches + 1]
            ELSE ScanFeeds(after, fetches + 1, feeds, inputs, i + 1, maxd, maxi)

collect_news_by_keyword(kw, inputs, maxd, maxi) ==
    LET r == ScanFeeds(NoSelection, 0, FeedsOf(kw), inputs, 1, maxd, maxi)
    IN [articles |-> Combined(r.sel), fetches |-> r.fetches]

\* Inputs of a topic used in the run: what each of its five URLs returns.
GoodEntry ==
    [published |-> "recent", title |-> [n |-> MinTitleLen, pad |-> FALSE], raises |-> FALSE]
StaleEntry ==
    [published |-> "stale", title |-> [n |-> MinTitleLen, pad |-> FALSE], raises |-> FALSE]

FeedScenarios ==
    { [i \in 1..5 |-> [status |-> "bozo", entries |-> <<>>]],
      [i \in 1..5 |-> [status |-> "ok", entries |-> <<StaleEntry>>]],
      [i \in 1..5 |-> IF i = 1 THEN [status |-> "raise", entries |-> <<>>]
                               ELSE [status |-> "ok", entries |-> <<GoodEntry>>]],
      [i \in 1..5 |-> [status |-> "ok", entries |-> <<GoodEntry, GoodEntry, GoodEntry>>]] }

(***************************************************************************)
(* summarize_news_with_gemini                                              *)
(***************************************************************************)

\* len(f"{emoji} {keyword}\n"): the politics emoji is two code points.
LabelLen(kw) == IF kw = "politics" THEN 6 ELSE 5

\* Lengths of the fixed bullet lines ("• " included) of lines 188, 231, 247,
\* 259, and of the prefix of line 459.
FixedLineLen ==
    [no_news |-> 22, empty_response |-> 16, no_bullets |-> 24, api_error |-> 24,
     process_error |-> 19]

\* What model.generate_content does: raises, returns text that is empty after
\* strip, returns text of which no line becomes a bullet, or returns text
\* whose bullets (five at most are kept) have len characters joined.
ShortTextLen == 60
LongTextLen == 2000

ApiResponses ==
    {[outcome |-> "raise", len |-> 0], [outcome |-> "empty", len |-> 0],
     [outcome |-> "no_bullets", len |-> 0],
     [outcome |-> "text", len |-> ShortTextLen], [outcome |-> "text", len |-> LongTextLen]}

Section(kw, kind, body_len) == [keyword |-> kw, kind |-> kind, len |-> LabelLen(kw) + body_len]

\* A variant that calls the API again after an exception.
summarize_with_retry(kw, arts, api) ==
    IF arts = <<>>
    THEN [summary |-> Section(kw, "no_news", FixedLineLen.no_news), api_calls |-> 0]
    ELSE IF api.outcome = "raise"
    THEN [summary |-> Section(kw, "api_error", FixedLineLen.api_error), api_calls |-> 2]
    ELSE IF api.outcome = "empty"
    THEN [summary |-> Section(kw, "empty_response", FixedLineLen.empty_response), api_calls |-> 1]
    ELSE IF api.outcome = "no_bullets"
    THEN [summary |-> Section(kw, "no_bullets", FixedLineLen.no_bullets), api_calls |-> 1]
    ELSE [summary |-> Section(kw, "ok", api.len), api_calls |-> 1]

\* Lines 184-259: the returned block and the number of generate_content calls.
summarize_news_with_gemini(kw, arts, api) ==
    IF arts = <<>>
    THEN [summary |-> Section(kw, "no_news", FixedLineLen.no_news), api_calls |-> 0]
    ELSE IF api.outcome = "raise"
    THEN [summary |-> Section(kw, "api_error", FixedLineLen.api_error), api_calls |-> 1]
    ELSE IF api.outcome = "empty"
    THEN [summary |-> Section(kw, "empty_response", FixedLineLen.empty_response), api_calls |-> 1]
    ELSE IF api.outcome = "no_bullets"
    THEN [summary |-> Section(kw, "no_bullets", FixedLineLen.no_bullets), api_calls |-> 1]
    ELSE [summary |-> Section(kw, "ok", api.len), api_calls |-> 1]

(***************************************************************************)
(* main: the topic loop and the assembly                                   *)
(***************************************************************************)

\* Lengths of str(e) in the error block of line 459.
ErrorTextLen == 40

ErrorTextLens == {ErrorTextLen}

\* Lines 451-452: the summary is appended and the topic counted.
TopicCompleted(summaries, count, summary) ==
    [summaries |-> Append(summaries, summary), count |-> count + 1]

\* A handler that logs the failure and appends nothing.
TopicFailedSilently(summaries, count, kw, err_len) ==
    [summaries |-> summaries, count |-> count]

\* Lines 457-461: the handler of the topic body appends an error block and
\* leaves success_count alone.
TopicFailed(summaries, count, kw, err_len) ==
    [summaries |-> Append(summaries,
                          Section(kw, "process_error", FixedLineLen.process_error + err_len)),
     count |-> count]

RECURSIVE SumLen(_)
SumLen(sections) ==
    IF sections = <<>> THEN 0 ELSE Head(sections).len + SumLen(Tail(sections))

\* len("\n\n".join(all_summaries))
JoinedLen(sections) ==
    IF sections = <<>> THEN 0 ELSE SumLen(sections) + 2 * (Len(sections) - 1)

HeaderLen == 16         \* len(header), line 463: "📰 MM/DD weekday 뉴스요약"
RuleLen == 30           \* '─'*30, lines 465 and 471

\* Digits of the elapsed seconds printed in the footer.
DurationDigits == {1, 2}

\* Lines 471-474: two newlines, the rule, "\n📊 c/4개 완료", " | ⏱️ <d>초",
\* " | 🕐 HH:MM".
FooterLen(digits) == 2 + RuleLen + 10 + (7 + digits) + 10

\* Lines 463-476.
Assemble(summaries, count, digits) ==
    [sections      |-> summaries,
     success_count |-> count,
     total         |-> Len(TopicOrder),
     len           |-> HeaderLen + 1 + RuleLen + 2 + JoinedLen(summaries) + FooterLen(digits)]

NoMessage == [sections |-> <<>>, success_count |-> 0, total |-> 0, len |-> 0]

(***************************************************************************)
(* The delivery stage: pure steps                                          *)
(***************************************************************************)

None == "None"
TempPath == "tmp.ogg"       \* tempfile.mktemp(suffix='.ogg')
Running == "running"       \* exit_code before the process has ended

\* What one edge_tts save does: writes the whole file; fails before the file
\* is opened; or opens (creates) the file and fails while streaming into it.
TtsOutcomes == {"ok", "fail_no_file", "fail_with_file"}

\* A variant of line 489 that sends the voice only after a delivered text.
VoiceDueAfterText(audio, on_disk, text_ok) == audio # None /\ on_disk /\ text_ok

\* Line 489: audio_file and os.path.exists(audio_file).
VoiceDue(audio, on_disk, text_ok) == audio # None /\ on_disk

\* Lines 26-38: every required environment variable is set and non-empty.
SecretNames == {"GEMINI_API_KEY", "TELEGRAM_BOT_TOKEN", "TELEGRAM_CHAT_ID"}

SecretsPresent(env) == \A name \in SecretNames : env[name]

\* A driver that treats every exception alike.
ExitStatusAnyException(exc) == IF exc = "none" THEN 0 ELSE 1

\* Lines 513-520: KeyboardInterrupt is reported and the script ends normally;
\* any other Exception ends it with sys.exit(1).
ExitStatus(exc) == IF exc = "Exception" THEN 1 ELSE 0

(***************************************************************************)
(* One run of the script                                                   *)
(***************************************************************************)

CollectIdle ==
    /\ cpc = "off"
    /\ keyword = "none"
    /\ max_domestic = 0
    /\ max_international = 0
    /\ feed_i = 0
    /\ entry_j = 0
    /\ domestic_articles = <<>>
    /\ international_articles = <<>>
    /\ all_articles = <<>>
    /\ failures = {}
    /\ ref = RefStart

RunStart(env) ==
    /\ pc = "secrets"
    /\ secrets = env
    /\ topic_k = 0
    /\ articles = <<>>
    /\ all_summaries = <<>>
    /\ success_count = 0
    /\ calls = <<>>
    /\ feed_fetches = 0
    /\ full_message = NoMessage
    /\ output_path = None
    /\ file_on_disk = FALSE
    /\ audio_file = None
    /\ tts_attempts = 0
    /\ text_sends = <<>>
    /\ voice_sends = 0
    /\ text_success = FALSE
    /\ voice_success = FALSE
    /\ unlink_failed = FALSE
    /\ raised = "none"
    /\ exit_code = Running

\* Lines 22-42: the module-level checks; a missing secret ends the process
\* with status 1 before main is entered.
CheckSecrets ==
    /\ pc = "secrets"
    /\ IF SecretsPresent(secrets)
       THEN pc' = "main" /\ exit_code' = exit_code
       ELSE pc' = "exit" /\ exit_code' = 1
    /\ UNCHANGED <<secrets, topic_k, articles, all_summaries, success_count, calls,
                   feed_fetches, full_message, output_path, file_on_disk, audio_file,
                   tts_attempts, text_sends, voice_sends, text_success, voice_success,
                   unlink_failed, raised>>
    /\ UNCHANGED collectVars

\* Lines 430-444: main starts and enters the topic loop.
StartMain ==
    /\ pc = "main"
    /\ pc' = "collect"
    /\ topic_k' = 1
    /\ all_summaries' = <<>>
    /\ success_count' = 0
    /\ UNCHANGED <<secrets, articles, calls, feed_fetches, full_message, output_path,
                   file_on_disk, audio_file, tts_attempts, text_sends, voice_sends,
                   text_success, voice_success, unlink_failed, raised, exit_code>>
    /\ UNCHANGED collectVars

NextTopicPc(k) == IF k >= Len(TopicOrder) THEN "assemble" ELSE "collect"

\* Line 449: the topic's feeds are scanned.
CollectTopic ==
    /\ pc = "collect"
    /\ \E inputs \in FeedScenarios :
          LET r == collect_news_by_keyword(TopicOrder[topic_k], inputs,
                                           DefaultMaxDomestic, DefaultMaxInternational)
          IN /\ articles' = r.articles
             /\ feed_fetches' = feed_fetches + r.fetches
    /\ pc' = "summarize"
    /\ UNCHANGED <<secrets, topic_k, all_summaries, success_count, calls, full_message,
                   output_path, file_on_disk, audio_file, tts_attempts, text_sends,
                   voice_sends, text_success, voice_success, unlink_failed, raised,
                   exit_code>>
    /\ UNCHANGED collectVars

\* Lines 449, 457-461: an exception leaves the topic body (raised in
\* collect_news_by_keyword outside its per-feed handler, before any fetch)
\* and is caught by the handler of the topic body.
CollectRaises ==
    /\ pc = "collect"
    /\ \E err_len \in ErrorTextLens :
          LET r == TopicFailed(all_summaries, success_count, TopicOrder[topic_k], err_len)
          IN /\ all_summaries' = r.summaries
             /\ success_count' = r.count
    /\ pc' = NextTopicPc(topic_k)
    /\ topic_k' = topic_k + 1
    /\ UNCHANGED <<secrets, articles, calls, feed_fetches, full_message, output_path,
                   file_on_disk, audio_file, tts_attempts, text_sends, voice_sends,
                   text_success, voice_success, unlink_failed, raised, exit_code>>
    /\ UNCHANGED collectVars

\* Lines 450-455: the topic is summarized, its block appended, the topic counted.
SummarizeTopic ==
    /\ pc = "summarize"
    /\ \E api \in ApiResponses :
          LET kw == TopicOrder[topic_k]
              s  == summarize_news_with_gemini(kw, articles, api)
              r  == TopicCompleted(all_summaries, success_count, s.summary)
          IN /\ calls' = Append(calls, [keyword   |-> kw,
                                        nonempty  |-> articles # <<>>,
                                        kind      |-> s.summary.kind,
                                        api_calls |-> s.api_calls])
             /\ all_summaries' = r.summaries
             /\ success_count' = r.count
    /\ articles' = <<>>
    /\ pc' = NextTopicPc(topic_k)
    /\ topic_k' = topic_k + 1
    /\ UNCHANGED <<secrets, feed_fetches, full_message, output_path, file_on_disk,
                   audio_file, tts_attempts, text_sends, voice_sends, text_success,
                   voice_success, unlink_failed, raised, exit_code>>
    /\ UNCHANGED collectVars

\* Lines 463-481: header, joined blocks and footer.
AssembleDigest ==
    /\ pc = "assemble"
    /\ \E digits \in DurationDigits :
          full_message' = Assemble(all_summaries, success_count, digits)
    /\ pc' = "tts_ssml"
    /\ UNCHANGED <<secrets, topic_k, articles, all_summaries, success_count, calls,
                   feed_fetches, output_path, file_on_disk, audio_file, tts_attempts,
                   text_sends, voice_sends, text_success, voice_success, unlink_failed,
                   raised, exit_code>>
    /\ UNCHANGED collectVars

\* Lines 306-334: generate_news_audio's first attempt, with SSML.
TtsSsml ==
    /\ pc = "tts_ssml"
    /\ output_path' = TempPath
    /\ tts_attempts' = tts_attempts + 1
    /\ \E outcome \in TtsOutcomes :
          /\ file_on_disk' = (file_on_disk \/ outcome # "fail_no_file")
          /\ IF outcome = "ok"
             THEN audio_file' = TempPath /\ pc' = "send_text"
             ELSE audio_file' = audio_file /\ pc' = "tts_fallback"
    /\ UNCHANGED <<secrets, topic_k, articles, all_summaries, success_count, calls,
                   feed_fetches, full_message, text_sends, voice_sends, text_success,
                   voice_success, unlink_failed, raised, exit_code>>
    /\ UNCHANGED collectVars

\* Lines 335-365: the second attempt, with plain text, to the same path.
TtsFallback ==
    /\ pc = "tts_fallback"
    /\ tts_attempts' = tts_attempts + 1
    /\ \E outcome \in TtsOutcomes :
          /\ file_on_disk' = (file_on_disk \/ outcome # "fail_no_file")
          /\ audio_file' = IF outcome = "ok" THEN output_path ELSE None
    /\ pc' = "send_text"
    /\ UNCHANGED <<secrets, topic_k, articles, all_summaries, success_count, calls,
                   feed_fetches, full_message, output_path, text_sends, voice_sends,
                   text_success, voice_success, unlink_failed, raised, exit_code>>
    /\ UNCHANGED collectVars

\* Lines 486-487 and 367-394: the digest is handed to send_telegram_message,
\* which returns True or False and never raises.
SendText ==
    /\ pc = "send_text"
    /\ text_sends' = Append(text_sends, full_message.len)
    /\ text_success' \in BOOLEAN
    /\ voice_success' = FALSE
    /\ pc' = "voice"
    /\ UNCHANGED <<secrets, topic_k, articles, all_summaries, success_count, calls,
                   feed_fetches, full_message, output_path, file_on_disk, audio_file,
                   tts_attempts, voice_sends, unlink_failed, raised, exit_code>>
    /\ UNCHANGED collectVars

\* Lines 489-491 and 396-426: with an audio file, send_telegram_voice is called.
SendVoice ==
    /\ pc = "voice"
    /\ VoiceDue(audio_file, file_on_disk, text_success)
    /\ voice_sends' = voice_sends + 1
    /\ voice_success' \in BOOLEAN
    /\ pc' = "unlink"
    /\ UNCHANGED <<secrets, topic_k, articles, all_summaries, success_count, calls,
                   feed_fetches, full_message, output_path, file_on_disk, audio_file,
                   tts_attempts, text_sends, text_success, unlink_failed, raised,
                   exit_code>>
    /\ UNCHANGED collectVars

\* Line 489, the other branch: no voice send and no unlink.
SkipVoice ==
    /\ pc = "voice"
    /\ ~VoiceDue(audio_file, file_on_disk, text_success)
    /\ pc' = "report"
    /\ UNCHANGED <<secrets, topic_k, articles, all_summaries, success_count, calls,
                   feed_fetches, full_message, output_path, file_on_disk, audio_file,
                   tts_attempts, text_sends, voice_sends, text_success, voice_success,
                   unlink_failed, raised, exit_code>>
    /\ UNCHANGED collectVars

\* Lines 493-497: os.unlink(audio_file); a failure is logged and ignored.
UnlinkAudio ==
    /\ pc = "unlink"
    /\ \E ok \in BOOLEAN :
          /\ file_on_disk' = IF ok THEN FALSE ELSE file_on_disk
          /\ unlink_failed' = ~ok
    /\ pc' = "report"
    /\ UNCHANGED <<secrets, topic_k, articles, all_summaries, success_count, calls,
                   feed_fetches, full_message, output_path, audio_file, tts_attempts,
                   text_sends, voice_sends, text_success, voice_success, raised,
                   exit_code>>
    /\ UNCHANGED collectVars

\* Lines 499-511: the results are printed and main returns.
Report ==
    /\ pc = "report"
    /\ pc' = "driver"
    /\ UNCHANGED <<secrets, topic_k, articles, all_summaries, success_count, calls,
                   feed_fetches, full_message, output_path, file_on_disk, audio_file,
                   tts_attempts, text_sends, voice_sends, text_success, voice_success,
                   unlink_failed, raised, exit_code>>
    /\ UNCHANGED collectVars

\* Lines 513-520: asyncio.run(main()) has returned or raised.
TopLevel ==
    /\ pc = "driver"
    /\ exit_code' = ExitStatus(raised)
    /\ pc' = "exit"
    /\ UNCHANGED <<secrets, topic_k, articles, all_summaries, success_count, calls,
                   feed_fetches, full_message, output_path, file_on_disk, audio_file,
                   tts_attempts, text_sends, voice_sends, text_success, voice_success,
                   unlink_failed, raised>>
    /\ UNCHANGED collectVars

\* The positions inside main.
MainPcs == {"main", "collect", "summarize", "assemble", "tts_ssml", "tts_fallback",
            "send_text", "voice", "unlink", "report"}

\* The positions of main whose statements are in no try block.
UnguardedPcs == {"main", "assemble", "report"}

\* SIGINT during main: KeyboardInterrupt passes every "except Exception" and
\* leaves asyncio.run.
Interrupt ==
    /\ pc \in MainPcs
    /\ raised' = "KeyboardInterrupt"
    /\ pc' = "driver"
    /\ UNCHANGED <<secrets, topic_k, articles, all_summaries, success_count, calls,
                   feed_fetches, full_message, output_path, file_on_disk, audio_file,
                   tts_attempts, text_sends, voice_sends, text_success, voice_success,
                   unlink_failed, exit_code>>
    /\ UNCHANGED collectVars

\* An exception raised by a statement of main that no handler of main covers.
Crash ==
    /\ pc \in UnguardedPcs
    /\ raised' = "Exception"
    /\ pc' = "driver"
    /\ UNCHANGED <<secrets, topic_k, articles, all_summaries, success_count, calls,
                   feed_fetches, full_message, output_path, file_on_disk, audio_file,
                   tts_attempts, text_sends, voice_sends, text_success, voice_success,
                   unlink_failed, exit_code>>
    /\ UNCHANGED collectVars

(***************************************************************************)
(* Specifications                                                          *)
(***************************************************************************)

RunIdle ==
    /\ pc = "off"
    /\ secrets = [name \in SecretNames |-> TRUE]
    /\ topic_k = 0
    /\ articles = <<>>
    /\ all_summaries = <<>>
    /\ success_count = 0
    /\ calls = <<>>
    /\ feed_fetches = 0
    /\ full_message = NoMessage
    /\ output_path = None
    /\ file_on_disk = FALSE
    /\ audio_file = None
    /\ tts_attempts = 0
    /\ text_sends = <<>>
    /\ voice_sends = 0
    /\ text_success = FALSE
    /\ voice_success = FALSE
    /\ unlink_failed = FALSE
    /\ raised = "none"
    /\ exit_code = Running

\* The caps a caller passes: main's (the defaults) and smaller ones.
DomesticCaps == {1, DefaultMaxDomestic}
InternationalCaps == {0, DefaultMaxInternational}

InitCollect ==
    /\ \E kw \in Topics \cup {"unknown"} :
       \E maxd \in DomesticCaps :
       \E maxi \in InternationalCaps : CollectStart(kw, maxd, maxi)
    /\ RunIdle

NextCollect == FetchFeed \/ ScanEntry \/ EndEntries \/ FeedEnd \/ ReturnArticles

SpecCollect == InitCollect /\ [][NextCollect]_vars

Init ==
    /\ \E env \in [SecretNames -> BOOLEAN] : RunStart(env)
    /\ CollectIdle

Next ==
    \/ CheckSecrets
    \/ StartMain
    \/ CollectTopic
    \/ CollectRaises
    \/ SummarizeTopic
    \/ AssembleDigest
    \/ TtsSsml
    \/ TtsFallback
    \/ SendText
    \/ SendVoice
    \/ SkipVoice
    \/ UnlinkAudio
    \/ Report
    \/ TopLevel

Spec == Init /\ [][Next]_vars

NextInt == Next \/ Interrupt \/ Crash

SpecInt == Init /\ [][NextInt]_vars

(***************************************************************************)
(* Properties of collect_news_by_keyword (under SpecCollect)               *)
(***************************************************************************)

CountSource(arts, source) == Cardinality({i \in DOMAIN arts : arts[i].source = source})

\* C1: at every point of the scan and in the returned list, the selection
\* holds at most max_domestic domestic and at most max_international
\* international articles, whatever the feeds and entries and whichever of
\* them fail.
C1_CapsHold ==
    cpc # "off" =>
        /\ Len(domestic_articles) <= max_domestic
        /\ Len(international_articles) <= max_international
        /\ \A i \in DOMAIN domestic_articles : domestic_articles[i].source = "domestic"
        /\ \A i \in DOMAIN international_articles :
              international_articles[i].source = "international"
        /\ CountSource(all_articles, "domestic") <= max_domestic
        /\ CountSource(all_articles, "international") <= max_international

\* A scan called with main's caps returns a list filled to both caps after a
\* feed failed on the way.
C1_Witness ==
    /\ cpc = "returned"
    /\ max_domestic = DefaultMaxDomestic
    /\ max_international = DefaultMaxInternational
    /\ CountSource(all_articles, "domestic") = DefaultMaxDomestic
    /\ CountSource(all_articles, "international") = DefaultMaxInternational
    /\ failures # {}

\* C2: the returned list holds no two entries with the same trimmed title.
C2_NoDuplicateTitles ==
    cpc = "returned" =>
        \A i, j \in DOMAIN all_articles :
            i # j => all_articles[i].title # all_articles[j].title

\* C3: a feed that raises or is flagged bozo contributes nothing and changes
\* nothing else: at every point the accumulators are those of the scan of the
\* feed list without the failed feeds, that scan ends where this one ends, and
\* the returned list is its list.
C3_FailedFeedsChangeNothing ==
    cpc # "off" =>
        /\ domestic_articles = ref.dom
        /\ international_articles = ref.intl
        /\ cpc = "break" => ref.stopped
        /\ cpc = "returned" =>
              /\ all_articles = ref.dom \o ref.intl
              /\ ref.stopped \/ feed_i > Len(FeedsOf(keyword))

\* A scan that met a bozo feed and a raising feed returns articles of the
\* other feeds.
C3_Witness ==
    /\ cpc = "returned"
    /\ failures = {"bozo", "raise"}
    /\ CountSource(all_articles, "domestic") > 0
    /\ CountSource(all_articles, "international") > 0

(***************************************************************************)
(* Properties of one run (under Spec)                                      *)
(***************************************************************************)

AfterLoopPcs == {"assemble", "tts_ssml", "tts_fallback", "send_text", "voice", "unlink",
                 "report", "driver"}

AfterAssemblyPcs == AfterLoopPcs \ {"assemble"}

AfterDeliveryPcs == {"report", "driver"}

\* The run went through main to its end (it did not stop at the secret checks).
RanToCompletion == pc = "exit" /\ SecretsPresent(secrets) /\ raised = "none"

\* C4: for each topic the summarizer makes no generation call when the
\* article list is empty, and then returns the "no news" block, and exactly
\* one when it is not, whatever the call does; a topic is summarized at most
\* once in a run.
C4_ApiCallsPerTopic ==
    /\ \A i \in DOMAIN calls :
          /\ calls[i].nonempty => calls[i].api_calls = 1 /\ calls[i].kind # "no_news"
          /\ ~calls[i].nonempty => calls[i].api_calls = 0 /\ calls[i].kind = "no_news"
    /\ \A i, j \in DOMAIN calls : i # j => calls[i].keyword # calls[j].keyword

\* A finished run in which one topic had no article, for one the call raised,
\* for one it returned empty text and for one it succeeded.
C4_Witness ==
    /\ RanToCompletion
    /\ \E i \in DOMAIN calls : ~calls[i].nonempty
    /\ \E i \in DOMAIN calls : calls[i].kind = "api_error"
    /\ \E i \in DOMAIN calls : calls[i].kind = "empty_response"
    /\ \E i \in DOMAIN calls : calls[i].kind = "ok"

\* C5: whatever happens to each topic, the loop adds one section per topic in
\* the order of KEYWORD_FEEDS, the assembled digest holds exactly these four
\* sections, no exception leaves main, and the loop always has a next step
\* towards the delivery stage.
C5_OneSectionPerTopic ==
    /\ pc \in {"collect", "summarize"} =>
          /\ Len(all_summaries) = topic_k - 1
          /\ topic_k <= Len(TopicOrder)
          /\ ENABLED Next
    /\ pc \in AfterLoopPcs \/ RanToCompletion => Len(all_summaries) = Len(TopicOrder)
    /\ \A i \in DOMAIN all_summaries : all_summaries[i].keyword = TopicOrder[i]
    /\ pc \in AfterAssemblyPcs \/ RanToCompletion => full_message.sections = all_summaries
    /\ raised = "none"

\* The delivery stage is reached with a digest whose topics had, in order: no
\* qualifying article, an exception caught by the topic handler, a normal
\* summary, an empty API response.
C5_Witness ==
    /\ pc = "send_text"
    /\ Len(full_message.sections) = 4
    /\ full_message.sections[1].kind = "no_news"
    /\ full_message.sections[2].kind = "process_error"
    /\ full_message.sections[3].kind = "ok"
    /\ full_message.sections[4].kind = "empty_response"

\* The kinds of section that stand for a topic processed without error.
ErrorFreeKinds == {"ok", "no_news"}

\* C6: the count in the footer is the number of topics processed without
\* error, a summarization failure replaced by a fallback block counting as an
\* error; it lies between 0 and the number of topics.
C6_FooterCountsErrorFreeTopics ==
    pc \in AfterAssemblyPcs =>
        /\ full_message.success_count =
              Cardinality({i \in DOMAIN full_message.sections :
                              full_message.sections[i].kind \in ErrorFreeKinds})
        /\ full_message.success_count \in 0..full_message.total

\* C8: at the end of a run no temporary audio file is left on disk, provided
\* no unlink failed.
C8_NoTempFileLeft ==
    RanToCompletion /\ ~unlink_failed => ~file_on_disk

\* The cap of the chat API on the length of a text message.
DeliveryCap == 4096

\* C9: the text handed to send_telegram_message never exceeds the delivery
\* cap.
C9_SentTextWithinCap ==
    \A i \in DOMAIN text_sends : text_sends[i] <= DeliveryCap

\* C10: a run that reaches delivery attempts the text send exactly once,
\* whatever the synthesis did; with an audio file it attempts the voice send
\* exactly once, whatever the text send returned (and without one, never);
\* no send raises out of main.
C10_SendsIndependent ==
    /\ Len(text_sends) <= 1
    /\ voice_sends <= 1
    /\ pc \in {"voice", "unlink"} \cup AfterDeliveryPcs \/ RanToCompletion =>
          Len(text_sends) = 1
    /\ pc \in {"unlink"} \cup AfterDeliveryPcs \/ RanToCompletion =>
          voice_sends = IF audio_file # None THEN 1 ELSE 0
    /\ raised = "none"

\* A finished run whose first synthesis failed and whose fallback produced
\* the audio: the text send failed and the voice send was still attempted.
C10_Witness ==
    /\ RanToCompletion
    /\ tts_attempts = 2
    /\ audio_file # None
    /\ Len(text_sends) = 1
    /\ ~text_success
    /\ voice_sends = 1

(***************************************************************************)
(* The exit status (under SpecInt)                                         *)
(***************************************************************************)

NothingAttempted ==
    /\ feed_fetches = 0
    /\ calls = <<>>
    /\ tts_attempts = 0
    /\ text_sends = <<>>
    /\ voice_sends = 0

\* C7, as stated: the exit status is non-zero exactly when a secret is
\* missing or an exception left main.
C7_ExitStatusAsStated ==
    pc = "exit" =>
        (exit_code # 0 <=> (~SecretsPresent(secrets) \/ raised # "none"))

\* C7, amended: the exit status is non-zero exactly when a secret is missing
\* or an exception other than KeyboardInterrupt left main; failed sends and
\* failed topics do not change it, and with a secret missing nothing is
\* fetched, generated, synthesized or sent.
C7_ExitStatus ==
    /\ pc = "exit" =>
          /\ exit_code \in {0, 1}
          /\ exit_code # 0 <=> (~SecretsPresent(secrets) \/ raised = "Exception")
    /\ pc # "exit" => exit_code = Running
    /\ ~SecretsPresent(secrets) => NothingAttempted /\ pc \in {"secrets", "exit"}

\* A run in which every topic failed and both sends failed ends with status 0.
C7_Witness ==
    /\ pc = "exit"
    /\ exit_code = 0
    /\ raised = "none"
    /\ Len(all_summaries) = Len(TopicOrder)
    /\ success_count = 0
    /\ Len(text_sends) = 1
    /\ ~text_success
    /\ voice_sends = 1
    /\ ~voice_success

=============================================================================
